---- MODULE Spec2Model ----
(***************************************************************************)
(* The Slide task of panda-gym (src/panda_gym/envs/tasks/slide.py).        *)
(*                                                                         *)
(* Lengths are integers counting hundredths of a unit (0.05 is 5, 0.3 is   *)
(* 30), so that every constant of the source and every half of an even     *)
(* extent is exact.  A Euclidean distance is carried as its square, and a  *)
(* comparison of a distance with a threshold is decided on the squares.    *)
(* A point is a tuple <<x, y, z>>.                                         *)
(***************************************************************************)
EXTENDS Integers, Sequences, FiniteSets, TLC

VARIABLES self, sim, np_random, last_call

vars == <<self, sim, np_random, last_call>>

(***************************************************************************)
(* Bounds of the model.                                                    *)
(***************************************************************************)
\* a draw of the generator is one of u = 0/GridN, 1/GridN, ..., GridN/GridN
GridN == 2
\* the batch samplers are called with n in 0..MaxN
MaxN == 1
\* the generator hands out at most MaxDraws numbers in one behaviour
MaxDraws == 12

(***************************************************************************)
(* Constants of the source.                                                *)
(***************************************************************************)
object_size == 6
default_distance_threshold == 5
default_goal_xy_range == 30
default_goal_x_offset == 40
default_obj_xy_range == 30

None == <<>>
IdentityOrientation == <<0, 0, 0, 1>>
RewardTypes == {"sparse", "dense"}

\* <<distance_threshold, goal_xy_range, goal_x_offset, obj_xy_range>>: the
\* defaults, then two small tables with a negative x offset (extents are even
\* and non-negative; an offset is a signed position).
Params ==
  { <<default_distance_threshold, default_goal_xy_range,
      default_goal_x_offset, default_obj_xy_range>>,
    <<5, 4, -2, 4>>,
    <<10, 4, -6, 4>> }

\* x / 2 of the source, exact on the even numbers it is applied to here
Half(x) == x \div 2

Add(a, b) == <<a[1] + b[1], a[2] + b[2], a[3] + b[3]>>

(***************************************************************************)
(* Collaborators that live outside slide.py.                               *)
(***************************************************************************)
\* panda_gym.utils.distance: the Euclidean distance, carried as its square
distance(a, b) ==
  (a[1] - b[1]) * (a[1] - b[1]) + (a[2] - b[2]) * (a[2] - b[2])
    + (a[3] - b[3]) * (a[3] - b[3])

\* sqrt(sq) < t and sqrt(sq) > t, for a squared distance sq and a threshold t
Less(sq, t) == t > 0 /\ sq < t * t
Greater(sq, t) == t < 0 \/ sq > t * t

\* one call of np_random.uniform draws three numbers u[i] / GridN of [0, 1];
\* the third scales the z extent, which every box of the task has at 0
Draws == {<<a, b, 0>> : a \in 0..GridN, b \in 0..GridN}

\* np_random.uniform(low, high): low + (high - low) * u, component-wise
uniform(low, high, u) ==
  << low[1] + ((high[1] - low[1]) * u[1]) \div GridN,
     low[2] + ((high[2] - low[2]) * u[2]) \div GridN,
     low[3] + ((high[3] - low[3]) * u[3]) \div GridN >>

\* sim.set_base_pose(body, position, orientation)
set_base_pose(s, body, position, orientation) ==
  [s EXCEPT ![body].position = position, ![body].orientation = orientation]

get_base_position(s, body) == s[body].position
get_base_rotation(s, body) == s[body].orientation
get_base_velocity(s, body) == s[body].velocity
get_base_angular_velocity(s, body) == s[body].angular_velocity

(***************************************************************************)
(* Slide.__init__                                                          *)
(***************************************************************************)
\* variant: the quadrant flag is tested before the fixed flag
goal_range_quadrant_first(goal_xy_range, goal_x_offset, fixed_goal, quadrant) ==
  IF quadrant
    THEN << <<goal_x_offset, 0, 0>>,
            <<Half(goal_xy_range) + goal_x_offset, Half(goal_xy_range), 0>> >>
    ELSE IF fixed_goal
      THEN << <<Half(goal_xy_range) + goal_x_offset, 0, 0>>,
              <<Half(goal_xy_range) + goal_x_offset, 0, 0>> >>
      ELSE << <<-Half(goal_xy_range) + goal_x_offset, -Half(goal_xy_range), 0>>,
              <<Half(goal_xy_range) + goal_x_offset, Half(goal_xy_range), 0>> >>

\* variant: the fixed box keeps the default policy's low corner
goal_range_fixed_low_default(goal_xy_range, goal_x_offset, fixed_goal, quadrant) ==
  IF fixed_goal
    THEN << <<-Half(goal_xy_range) + goal_x_offset, -Half(goal_xy_range), 0>>,
            <<Half(goal_xy_range) + goal_x_offset, 0, 0>> >>
    ELSE IF quadrant
      THEN << <<goal_x_offset, 0, 0>>,
              <<Half(goal_xy_range) + goal_x_offset, Half(goal_xy_range), 0>> >>
      ELSE << <<-Half(goal_xy_range) + goal_x_offset, -Half(goal_xy_range), 0>>,
              <<Half(goal_xy_range) + goal_x_offset, Half(goal_xy_range), 0>> >>

\* variant: the goal boxes are centred on the origin (x offset dropped)
goal_range_no_offset(goal_xy_range, goal_x_offset, fixed_goal, quadrant) ==
  IF fixed_goal
    THEN << <<Half(goal_xy_range), 0, 0>>, <<Half(goal_xy_range), 0, 0>> >>
    ELSE IF quadrant
      THEN << <<0, 0, 0>>, <<Half(goal_xy_range), Half(goal_xy_range), 0>> >>
      ELSE << <<-Half(goal_xy_range), -Half(goal_xy_range), 0>>,
              <<Half(goal_xy_range), Half(goal_xy_range), 0>> >>

\* <<goal_range_low, goal_range_high>>
goal_range(goal_xy_range, goal_x_offset, fixed_goal, quadrant) ==
  IF fixed_goal
    THEN << <<Half(goal_xy_range) + goal_x_offset, 0, 0>>,
            <<Half(goal_xy_range) + goal_x_offset, 0, 0>> >>
    ELSE IF quadrant
      THEN << <<goal_x_offset, 0, 0>>,
              <<Half(goal_xy_range) + goal_x_offset, Half(goal_xy_range), 0>> >>
      ELSE << <<-Half(goal_xy_range) + goal_x_offset, -Half(goal_xy_range), 0>>,
              <<Half(goal_xy_range) + goal_x_offset, Half(goal_xy_range), 0>> >>

\* variant: the two corners trade their signs
obj_range_swapped(obj_xy_range) ==
  << <<Half(obj_xy_range), Half(obj_xy_range), 0>>,
     <<-Half(obj_xy_range), -Half(obj_xy_range), 0>> >>

\* <<obj_range_low, obj_range_high>>
obj_range(obj_xy_range) ==
  << <<-Half(obj_xy_range), -Half(obj_xy_range), 0>>,
     <<Half(obj_xy_range), Half(obj_xy_range), 0>> >>

\* <<table_range_low, table_range_high>>
table_range(obj_xy_range, goal_x_offset) ==
  << <<-Half(obj_xy_range), -Half(obj_xy_range), 0>>,
     <<Half(obj_xy_range) + goal_x_offset, Half(obj_xy_range), 0>> >>

\* the task object after construction (self.goal is None until reset)
Slide(reward_type, distance_threshold, goal_xy_range, goal_x_offset, obj_xy_range, fixed_goal, quadrant) ==
  [ reward_type |-> reward_type,
    distance_threshold |-> distance_threshold,
    object_size |-> object_size,
    goal_xy_range |-> goal_xy_range,
    goal_x_offset |-> goal_x_offset,
    obj_xy_range |-> obj_xy_range,
    fixed_goal |-> fixed_goal,
    quadrant |-> quadrant,
    goal_range_low |-> goal_range(goal_xy_range, goal_x_offset, fixed_goal, quadrant)[1],
    goal_range_high |-> goal_range(goal_xy_range, goal_x_offset, fixed_goal, quadrant)[2],
    obj_range_low |-> obj_range(obj_xy_range)[1],
    obj_range_high |-> obj_range(obj_xy_range)[2],
    table_range_low |-> table_range(obj_xy_range, goal_x_offset)[1],
    table_range_high |-> table_range(obj_xy_range, goal_x_offset)[2],
    goal |-> None ]

\* the two cylinders _create_scene hands to the physics backend
create_scene ==
  [ object |-> [ mass |-> 1, ghost |-> FALSE,
                 radius |-> Half(object_size), height |-> Half(object_size),
                 position |-> <<0, 0, Half(object_size)>>,
                 orientation |-> IdentityOrientation,
                 velocity |-> <<0, 0, 0>>, angular_velocity |-> <<0, 0, 0>> ],
    target |-> [ mass |-> 0, ghost |-> TRUE,
                 radius |-> Half(object_size), height |-> Half(object_size),
                 position |-> <<0, 0, Half(object_size)>>,
                 orientation |-> IdentityOrientation,
                 velocity |-> <<0, 0, 0>>, angular_velocity |-> <<0, 0, 0>> ] ]

Init ==
  \E rt \in RewardTypes, p \in Params, fg \in BOOLEAN, q \in BOOLEAN :
    /\ self = Slide(rt, p[1], p[2], p[3], p[4], fg, q)
    /\ sim = create_scene
    /\ np_random = 0
    /\ last_call = [op |-> "__init__", args |-> <<>>, value |-> <<>>]

(***************************************************************************)
(* Sampling                                                                *)
(***************************************************************************)
\* _sample_goal, for the numbers u the generator hands out
sample_goal(s, u) ==
  Add(<<0, 0, Half(s.object_size)>>, uniform(s.goal_range_low, s.goal_range_high, u))

\* variant: the start position is drawn from the table box
sample_object_on_table(s, u) ==
  Add(<<0, 0, Half(s.object_size)>>, uniform(s.table_range_low, s.table_range_high, u))

\* _sample_object
sample_object(s, u) ==
  Add(<<0, 0, Half(s.object_size)>>, uniform(s.obj_range_low, s.obj_range_high, u))

\* variant: the rows are drawn from the table box
sample_n_goals_on_table(s, n, us) ==
  [i \in 1..n |->
     Add(<<0, 0, Half(s.object_size)>>, uniform(s.table_range_low, s.table_range_high, us[i]))]

\* _sample_n_goals: n rows, row i from the draws us[i]
sample_n_goals(s, n, us) ==
  [i \in 1..n |->
     Add(<<0, 0, Half(s.object_size)>>, uniform(s.goal_range_low, s.goal_range_high, us[i]))]

\* _sample_n_objects: n rows of the table box, the last column overwritten
sample_n_objects(s, n, us) ==
  [i \in 1..n |->
     [uniform(s.table_range_low, s.table_range_high, us[i]) EXCEPT ![3] = Half(s.object_size)]]

(***************************************************************************)
(* Observation, success and reward                                         *)
(***************************************************************************)
get_obs(b) ==
  get_base_position(b, "object") \o get_base_rotation(b, "object")
    \o get_base_velocity(b, "object") \o get_base_angular_velocity(b, "object")

get_achieved_goal(b) == get_base_position(b, "object")

\* variant: the threshold itself counts as reached
is_success_inclusive(s, achieved_goal, desired_goal) ==
  ~Greater(distance(achieved_goal, desired_goal), s.distance_threshold)

is_success(s, achieved_goal, desired_goal) ==
  Less(distance(achieved_goal, desired_goal), s.distance_threshold)

\* variant: the sparse penalty is already given on the threshold
compute_reward_inclusive(s, achieved_goal, desired_goal) ==
  IF s.reward_type = "sparse"
    THEN -(IF ~Less(distance(achieved_goal, desired_goal), s.distance_threshold) THEN 1 ELSE 0)
    ELSE [neg_sqrt |-> distance(achieved_goal, desired_goal)]

\* the sparse reward is the integer -1 or 0; the dense reward -d is carried
\* as the record [neg_sqrt |-> d * d]
compute_reward(s, achieved_goal, desired_goal) ==
  IF s.reward_type = "sparse"
    THEN -(IF Greater(distance(achieved_goal, desired_goal), s.distance_threshold) THEN 1 ELSE 0)
    ELSE [neg_sqrt |-> distance(achieved_goal, desired_goal)]

(***************************************************************************)
(* The operations                                                          *)
(***************************************************************************)
\* variant: the two poses are written to the wrong bodies
ResetSwapped ==
  /\ np_random + 6 <= MaxDraws
  /\ \E ug \in Draws, uo \in Draws :
       LET goal == sample_goal(self, ug)
           object_position == sample_object(self, uo)
       IN /\ self' = [self EXCEPT !.goal = goal]
          /\ sim' = set_base_pose(
                      set_base_pose(sim, "target", object_position, IdentityOrientation),
                      "object", goal, IdentityOrientation)
          /\ np_random' = np_random + 6
          /\ last_call' = [op |-> "reset", args |-> <<>>,
                           value |-> [goal |-> goal, object_position |-> object_position]]

Reset ==
  /\ np_random + 6 <= MaxDraws
  /\ \E ug \in Draws, uo \in Draws :
       LET goal == sample_goal(self, ug)
           object_position == sample_object(self, uo)
       IN /\ self' = [self EXCEPT !.goal = goal]
          /\ sim' = set_base_pose(
                      set_base_pose(sim, "target", goal, IdentityOrientation),
                      "object", object_position, IdentityOrientation)
          /\ np_random' = np_random + 6
          /\ last_call' = [op |-> "reset", args |-> <<>>,
                           value |-> [goal |-> goal, object_position |-> object_position]]

\* the physics backend moves the object between two calls of the task: onto
\* the target, or to the point one threshold away from it along x
PushTo == {self.goal, Add(self.goal, <<self.distance_threshold, 0, 0>>)}

SimStep ==
  /\ self.goal # None
  /\ \E p \in PushTo :
       /\ p # sim.object.position
       /\ sim' = [sim EXCEPT !.object.position = p]
  /\ last_call' = [op |-> "sim_step", args |-> <<>>, value |-> <<>>]
  /\ UNCHANGED <<self, np_random>>

GetObs ==
  /\ last_call' = [op |-> "get_obs", args |-> <<>>, value |-> get_obs(sim)]
  /\ UNCHANGED <<self, sim, np_random>>

GetAchievedGoal ==
  /\ last_call' = [op |-> "get_achieved_goal", args |-> <<>>, value |-> get_achieved_goal(sim)]
  /\ UNCHANGED <<self, sim, np_random>>

\* the orchestrator passes the object's position and the goal of the episode
IsSuccess ==
  /\ self.goal # None
  /\ last_call' = [op |-> "is_success", args |-> <<get_achieved_goal(sim), self.goal>>,
                   value |-> is_success(self, get_achieved_goal(sim), self.goal)]
  /\ UNCHANGED <<self, sim, np_random>>

ComputeReward ==
  /\ self.goal # None
  /\ last_call' = [op |-> "compute_reward", args |-> <<get_achieved_goal(sim), self.goal>>,
                   value |-> compute_reward(self, get_achieved_goal(sim), self.goal)]
  /\ UNCHANGED <<self, sim, np_random>>

\* is_success and compute_reward as functions of their arguments: the points
\* the two are applied to, pairwise at distance 0, 3, 4, 5, sqrt(26), 10, 11, ...
TestPoints ==
  { <<0, 0, 0>>, <<0, 0, 3>>, <<3, 4, 0>>, <<4, 0, 0>>, <<5, 0, 0>>,
    <<5, 1, 0>>, <<10, 0, 0>>, <<11, 0, 3>>, <<-6, -8, 0>> }

EvalIsSuccess ==
  /\ \E a \in TestPoints, d \in TestPoints :
       last_call' = [op |-> "is_success", args |-> <<a, d>>, value |-> is_success(self, a, d)]
  /\ UNCHANGED <<self, sim, np_random>>

EvalComputeReward ==
  /\ \E a \in TestPoints, d \in TestPoints :
       last_call' = [op |-> "compute_reward", args |-> <<a, d>>, value |-> compute_reward(self, a, d)]
  /\ UNCHANGED <<self, sim, np_random>>

SampleNGoals ==
  /\ \E n \in 0..MaxN :
       /\ np_random + 3 * n <= MaxDraws
       /\ \E us \in [1..n -> Draws] :
            last_call' = [op |-> "_sample_n_goals", args |-> <<n>>, value |-> sample_n_goals(self, n, us)]
       /\ np_random' = np_random + 3 * n
  /\ UNCHANGED <<self, sim>>

SampleNObjects ==
  /\ \E n \in 0..MaxN :
       /\ np_random + 3 * n <= MaxDraws
       /\ \E us \in [1..n -> Draws] :
            last_call' = [op |-> "_sample_n_objects", args |-> <<n>>, value |-> sample_n_objects(self, n, us)]
       /\ np_random' = np_random + 3 * n
  /\ UNCHANGED <<self, sim>>

\* an episode: reset, the backend's steps, and the per-step queries
Next ==
  \/ Reset
  \/ SimStep
  \/ GetObs
  \/ GetAchievedGoal
  \/ IsSuccess
  \/ ComputeReward

Spec == Init /\ [][Next]_vars

\* the batch samplers, called on the constructed task
NextBatch ==
  \/ SampleNGoals
  \/ SampleNObjects

SpecBatch == Init /\ [][NextBatch]_vars

\* the two evaluators, applied to arbitrary pairs of points
NextEval ==
  \/ EvalIsSuccess
  \/ EvalComputeReward

SpecEval == Init /\ [][NextEval]_vars

(***************************************************************************)
(* Vocabulary of the properties                                            *)
(***************************************************************************)
InBoxXY(p, low, high) ==
  /\ low[1] <= p[1] /\ p[1] <= high[1]
  /\ low[2] <= p[2] /\ p[2] <= high[2]

BoxOrdered(low, high) == \A i \in 1..3 : low[i] <= high[i]

Queries == {"get_obs", "get_achieved_goal", "is_success", "compute_reward"}

Ranges ==
  << self.goal_range_low, self.goal_range_high, self.obj_range_low,
     self.obj_range_high, self.table_range_low, self.table_range_high >>

HasDefaultParameters ==
  /\ self.distance_threshold = default_distance_threshold
  /\ self.goal_xy_range = default_goal_xy_range
  /\ self.goal_x_offset = default_goal_x_offset
  /\ self.obj_xy_range = default_obj_xy_range

\* the squared distance of the pair the last call was given
ArgDistance == distance(last_call.args[1], last_call.args[2])
ThresholdSq == self.distance_threshold * self.distance_threshold

(***************************************************************************)
(* C1: for a positive distance_threshold, is_success is true iff the       *)
(* distance of achieved and desired is strictly less than the threshold:   *)
(* true for achieved = desired, false at the threshold exactly, false for  *)
(* any larger distance.  (SpecEval)                                        *)
(***************************************************************************)
C1_IsSuccessStrict ==
  (last_call.op = "is_success" /\ self.distance_threshold > 0) =>
    /\ last_call.value <=> (ArgDistance < ThresholdSq)
    /\ (last_call.args[1] = last_call.args[2]) => (last_call.value = TRUE)
    /\ (ArgDistance = ThresholdSq) => (last_call.value = FALSE)
    /\ (ArgDistance > ThresholdSq) => (last_call.value = FALSE)

\* is_success was applied to a pair exactly one threshold apart
C1_Witness ==
  /\ last_call.op = "is_success"
  /\ ArgDistance = ThresholdSq
  /\ last_call.value = FALSE

(***************************************************************************)
(* C2, as claimed: the sparse reward is in {-1, 0}, -1 exactly when        *)
(* is_success is false and 0 exactly when it is true, also for a pair      *)
(* whose distance equals the threshold.  (SpecEval)                        *)
(***************************************************************************)
C2_Original ==
  (last_call.op = "compute_reward" /\ self.reward_type = "sparse") =>
    /\ last_call.value \in {-1, 0}
    /\ (last_call.value = -1) <=> ~is_success(self, last_call.args[1], last_call.args[2])
    /\ (last_call.value = 0) <=> is_success(self, last_call.args[1], last_call.args[2])

(***************************************************************************)
(* C2, amended: the sparse reward is in {-1, 0}, and is -1 exactly when    *)
(* the distance is strictly greater than the threshold; it is the negated  *)
(* indicator of is_success failing for every pair whose distance differs   *)
(* from the threshold, and for a pair at the threshold exactly is_success  *)
(* is false and the reward is 0.  (SpecEval)                               *)
(***************************************************************************)
C2_SparseReward ==
  (last_call.op = "compute_reward" /\ self.reward_type = "sparse") =>
    /\ last_call.value \in {-1, 0}
    /\ (last_call.value = -1) <=> (ArgDistance > ThresholdSq)
    /\ (ArgDistance # ThresholdSq) =>
         ((last_call.value = -1) <=> ~is_success(self, last_call.args[1], last_call.args[2]))
    /\ (ArgDistance = ThresholdSq) =>
         /\ last_call.value = 0
         /\ ~is_success(self, last_call.args[1], last_call.args[2])

\* the sparse reward was computed for a pair exactly one threshold apart
C2_Witness ==
  /\ last_call.op = "compute_reward"
  /\ self.reward_type = "sparse"
  /\ ArgDistance = ThresholdSq
  /\ last_call.value = 0

(***************************************************************************)
(* C3: after any sequence of resets, the goal _sample_goal returned has x  *)
(* and y inside the goal box and the position _sample_object returned has  *)
(* x and y inside the object box, so the goal reset stores and the poses   *)
(* reset writes lie inside their boxes.  (Spec)                            *)
(***************************************************************************)
C3_SamplesInBox ==
  /\ (self.goal # None) => InBoxXY(self.goal, self.goal_range_low, self.goal_range_high)
  /\ (last_call.op = "reset") =>
       /\ InBoxXY(last_call.value.goal, self.goal_range_low, self.goal_range_high)
       /\ InBoxXY(last_call.value.object_position, self.obj_range_low, self.obj_range_high)
       /\ InBoxXY(sim.target.position, self.goal_range_low, self.goal_range_high)
       /\ InBoxXY(sim.object.position, self.obj_range_low, self.obj_range_high)

\* a second reset put the goal and the object on the far corners of their boxes
C3_Witness ==
  /\ last_call.op = "reset"
  /\ np_random = 12
  /\ ~self.fixed_goal
  /\ self.goal[1] = self.goal_range_high[1]
  /\ self.goal[2] = self.goal_range_low[2]
  /\ sim.object.position[1] = self.obj_range_low[1]
  /\ sim.object.position[2] = self.obj_range_high[2]

(***************************************************************************)
(* C4, as claimed: after every reset the z of the goal and of the object's *)
(* start position is half the height with which _create_scene created the  *)
(* cylinder "object", and the same z is the initial z of the bodies        *)
(* "object" and "target" in _create_scene.  (Spec)                         *)
(***************************************************************************)
C4_Original ==
  (last_call.op = "reset") =>
    /\ 2 * self.goal[3] = sim.object.height
    /\ 2 * last_call.value.object_position[3] = sim.object.height
    /\ create_scene.object.position[3] = self.goal[3]
    /\ create_scene.target.position[3] = self.goal[3]

(***************************************************************************)
(* C5: only reset changes the goal; get_obs, get_achieved_goal, is_success *)
(* and compute_reward leave the goal, the body poses and the generator     *)
(* unchanged; in every state after the first reset the "target" body is at *)
(* the goal with the identity orientation, and right after a reset the     *)
(* "object" body is at the sampled start position with the identity        *)
(* orientation.  (Spec)                                                    *)
(***************************************************************************)
C5_GoalFixedInEpisode ==
  [][ /\ (last_call'.op # "reset") => (self'.goal = self.goal)
      /\ (last_call'.op \in Queries) =>
           (self' = self /\ sim' = sim /\ np_random' = np_random)
      /\ (self'.goal # None) =>
           /\ sim'.target.position = self'.goal
           /\ sim'.target.orientation = IdentityOrientation
      /\ (last_call'.op = "reset") =>
           /\ self'.goal = last_call'.value.goal
           /\ sim'.object.position = last_call'.value.object_position
           /\ sim'.object.orientation = IdentityOrientation ]_vars

\* a query answered in the second episode, after the object was moved
C5_Witness ==
  /\ last_call.op \in Queries
  /\ np_random = 12
  /\ self.goal # None
  /\ sim.object.position = self.goal

(***************************************************************************)
(* C6: with fixed_goal, _sample_goal returns the point                     *)
(* (goal_xy_range/2 + goal_x_offset, 0, object_size/2) for every draw of   *)
(* the generator and after any number of resets.  (Spec)                   *)
(***************************************************************************)
FixedPoint ==
  <<Half(self.goal_xy_range) + self.goal_x_offset, 0, Half(object_size)>>

C6_FixedGoalDeterministic ==
  self.fixed_goal =>
    /\ \A u \in Draws : sample_goal(self, u) = FixedPoint
    /\ (self.goal # None) => (self.goal = FixedPoint)
    /\ (last_call.op = "reset") => (last_call.value.goal = FixedPoint)

\* the second reset of a fixed-goal task
C6_Witness ==
  /\ self.fixed_goal
  /\ last_call.op = "reset"
  /\ np_random = 12

(***************************************************************************)
(* C7, as claimed: with goal_xy_range >= 0 and obj_xy_range >= 0, under    *)
(* any goal_x_offset and any flags, the goal, object and table boxes each  *)
(* satisfy low <= high component-wise.  (Spec)                             *)
(***************************************************************************)
C7_Original ==
  (self.goal_xy_range >= 0 /\ self.obj_xy_range >= 0) =>
    /\ BoxOrdered(self.goal_range_low, self.goal_range_high)
    /\ BoxOrdered(self.obj_range_low, self.obj_range_high)
    /\ BoxOrdered(self.table_range_low, self.table_range_high)

(***************************************************************************)
(* C7, amended: with goal_xy_range >= 0 and obj_xy_range >= 0, under any   *)
(* goal_x_offset and any flags, the goal box and the object box satisfy    *)
(* low <= high, and the table box satisfies low <= high exactly when       *)
(* goal_x_offset >= -obj_xy_range; no operation after construction changes *)
(* any of the six range vectors.  (Spec)                                   *)
(***************************************************************************)
C7_BoxesOrdered ==
  (self.goal_xy_range >= 0 /\ self.obj_xy_range >= 0) =>
    /\ BoxOrdered(self.goal_range_low, self.goal_range_high)
    /\ BoxOrdered(self.obj_range_low, self.obj_range_high)
    /\ BoxOrdered(self.table_range_low, self.table_range_high)
         <=> (self.goal_x_offset >= -self.obj_xy_range)

C7_RangesFixed == [](C7_BoxesOrdered) /\ [][Ranges' = Ranges]_vars

\* a task whose table box is inverted has been reset and queried
C7_Witness ==
  /\ self.goal_x_offset < -self.obj_xy_range
  /\ self.table_range_low[1] > self.table_range_high[1]
  /\ last_call.op \in Queries
  /\ np_random = 12

(***************************************************************************)
(* C8, as claimed: for every n, each row of _sample_n_goals is a possible  *)
(* result of _sample_goal, in the goal box with z = object_size/2; each    *)
(* row of _sample_n_objects has x and y inside the table box and           *)
(* z = object_size/2, and the table box contains the object box.           *)
(* (SpecBatch)                                                             *)
(***************************************************************************)
SingleGoals == {sample_goal(self, u) : u \in Draws}

TableContainsObjectBox ==
  \A i \in 1..3 :
    /\ self.table_range_low[i] <= self.obj_range_low[i]
    /\ self.obj_range_high[i] <= self.table_range_high[i]

GoalRowsAgree ==
  (last_call.op = "_sample_n_goals") =>
    /\ Len(last_call.value) = last_call.args[1]
    /\ \A i \in 1..Len(last_call.value) :
         /\ last_call.value[i] \in SingleGoals
         /\ InBoxXY(last_call.value[i], self.goal_range_low, self.goal_range_high)
         /\ last_call.value[i][3] = Half(object_size)

C9_GoalPolicy ==
  LET h == Half(self.goal_xy_range)
      off == self.goal_x_offset
  IN /\ self.fixed_goal =>
          /\ self.goal_range_low = self.goal_range_high
          /\ self.goal_range_low = <<h + off, 0, 0>>
     /\ (~self.fixed_goal /\ self.quadrant) =>
          /\ self.goal_range_low = <<off, 0, 0>>
          /\ self.goal_range_high = <<h + off, h, 0>>
          /\ (self.goal # None) => (self.goal[1] >= off /\ self.goal[2] >= 0)
     /\ (~self.fixed_goal /\ ~self.quadrant) =>
          /\ self.goal_range_low = <<off - h, -h, 0>>
          /\ self.goal_range_high = <<off + h, h, 0>>

\* a task built with both flags set has sampled a goal
C9_Witness ==
  /\ self.fixed_goal
  /\ self.quadrant
  /\ self.goal # None
  /\ last_call.op = "reset"

(***************************************************************************)
(* C10: with the default parameters and under each goal policy, right      *)
(* after every reset is_success(object position, goal) is false and the    *)
(* sparse reward is -1, the goal box and the object box being more than    *)
(* distance_threshold apart along x.  (Spec)                               *)
(***************************************************************************)
C10_NoEpisodeStartsSolved ==
  (HasDefaultParameters /\ last_call.op = "reset") =>
    /\ ~is_success(self, get_achieved_goal(sim), self.goal)
    /\ (self.reward_type = "sparse") =>
         (compute_reward(self, get_achieved_goal(sim), self.goal) = -1)
    /\ self.goal_range_low[1] - self.obj_range_high[1] > self.distance_threshold

\* the closest start the default boxes allow: goal on its low x, object on its
\* high x, both on the same y
C10_Witness ==
  /\ HasDefaultParameters
  /\ last_call.op = "reset"
  /\ self.reward_type = "sparse"
  /\ ~self.fixed_goal /\ ~self.quadrant
  /\ self.goal[1] = self.goal_range_low[1]
  /\ sim.object.position[1] = self.obj_range_high[1]
  /\ sim.object.position[2] = self.goal[2]

====
